---- MODULE Spec2Model ----
(***************************************************************************)
(* Model of librarian's catalog reconciliation (src/src/catalog.rs):       *)
(* librarian_catalog scans the immediate children of the resources         *)
(* directory, consults and rewrites the verification cache, deletes        *)
(* duplicates, and hands the digest -> path snapshot to Catalog::update,   *)
(* which updates or creates catalog entries, renames new resources to      *)
(* their digest, resolves orphans, sorts and persists the catalog.         *)
(*                                                                         *)
(* A run is modelled step by step (one action per loop iteration of the    *)
(* code); the operator acts on the directory only between runs.  Children  *)
(* are regular files; SHA-1 is collision free (Sha1 is injective).         *)
(***************************************************************************)
EXTENDS Integers, Sequences, FiniteSets, TLC

\* ---------------------------------------------------------------- bounds
\* number of operator events (add, edit, delete, process kill) in a behaviour
MaxOps == 3
\* number of runs of librarian_catalog started in a behaviour
MaxRuns == 3
\* the wall clock runs from 0 to MaxTime whole seconds
MaxTime == 1
\* invalid answers the operator gives to one orphan prompt
MaxReprompts == 1

\* the chunk size of file_sha1 (0x4000 in the program), scaled to the
\* file contents of the model
ChunkSize == 1

\* ------------------------------------------------------------ the universe
\* file contents, as opaque byte strings
Contents == {"c1", "c2"}

\* what a child that is a directory holds: t1 is a directory with the one
\* file a in it, whose content is c1
DirContents == {"t1"}

IsDir(c) == c \in DirContents

\* the file names directly inside a directory with the content c
NestedNames(c) == IF c = "t1" THEN {"a"} ELSE {}

\* hex SHA-1 of the content of a file or directory (sha1 + hex::encode);
\* injective
Sha1(c) == IF c = "c1" THEN "d1" ELSE IF c = "t1" THEN "d3" ELSE "d2"

Digests == {Sha1(c) : c \in Contents}

DirDigests == {Sha1(c) : c \in DirContents}

\* names the operator gives to files dropped into the resources directory
PlainNames == {"a", "b"}

\* names with an extension, or with a leading dot only; U+00C9 stands for
\* the one character LATIN CAPITAL LETTER E WITH ACUTE
DocNames == {"a.p", "a.P", "a.U+00C9", ".p"}

Names == PlainNames \cup Digests \cup DirDigests \cup DocNames

\* byte-wise order of Rust's String::partial_cmp on the strings of the model
StrOrder ==
    <<".p", "P", "a", "a.P", "a.p", "a.U+00C9", "b", "d1", "d2", "d3", "p", "t1",
      "t2", "U+00C9", "U+00E9">>

StrRank(s) == CHOOSE i \in 1..Len(StrOrder) : StrOrder[i] = s

StrLess(s, t) == StrRank(s) < StrRank(t)

NoFile == [content |-> "none", mtime |-> 0]

Policies == {"true", "false", "ask"}

Range(s) == {s[i] : i \in 1..Len(s)}

\* ------------------------------------------------------------------ state
VARIABLES
    disk,              \* resources directory: name -> [content, mtime] or NoFile
    clock,             \* SystemTime, whole seconds
    cacheFile,         \* persisted .cache: sequence of [key, last_verified, checksum]
    catalogFile,       \* persisted catalog.json: sequence of Resource
    pc,                \* "idle" | "done" | "scan" | "update" | "orphans"
    disable_cache,     \* argument of librarian_catalog
    remove_orphans,    \* argument of librarian_catalog / Catalog::update
    now,               \* `now` of the run
    catalog,           \* in-memory Catalog.resources
    cache,             \* in-memory cache (IndexMap, insertion ordered)
    cache_orphans,     \* keys of the clone of the loaded cache not yet seen
    todo,              \* children WalkDir has still to yield
    resources,         \* the snapshot: sequence of <<checksum, path>>
    idx,               \* snapshot entries processed by Catalog::update
    catalog_resources, \* IndexMap original digest -> Resource, as a sequence
    orphaned,          \* orphaned_catalog_resources
    pending,           \* orphans the resolution loop has still to visit
    reprompts,         \* invalid answers to the current prompt
    response,          \* the line read for the orphan decided last ("" if none)
    ops,               \* operator events so far
    runs,              \* runs started so far
    \* history of the current / last run, for stating the properties
    cat0,              \* catalogFile when the run started
    cache0,            \* cacheFile when the run started
    disk0,             \* disk when the run started
    again,             \* the run directly follows a completed run, same arguments
    renames,           \* files given a new name in the run
    deletes,           \* files deleted in the run
    hashes,            \* names sha1 was invoked on in the run
    removed,           \* original digests removed from the catalog as orphans
    created,           \* digests cataloged as new resources in the run
    fresh,             \* digests new to the catalog in the directly preceding run
    text0,             \* <<catalogText, cacheText>> when the run started
    stale,             \* children whose reused cached digest was not that of their content
    aborted,           \* <<>>, or <<[names, policy, expect]>>: the last process was
                       \* killed after it renamed the new resources `names`
    \* catalog.json and .cache as text, and the maps of the catalog
    catalogText,       \* "" (empty file) | "json" | "garbage"
    cacheText,         \* "" (empty file) | "json" | "garbage"
    typesFile,         \* persisted [document_types, content_types]
    document_types,    \* in-memory Catalog.document_types: <<[name, extension]>>
    content_types,     \* in-memory Catalog.content_types: <<[name, bibtex]>>
    \* the content hasher on its own: two directory trees and what
    \* directory_recursive_sha1 feeds the hasher for each
    trees,             \* <<tree, tree>>, or <<>> when no tree is being hashed
    roots,             \* <<directory_path, directory_path>> of the two trees
    streams,           \* bytes fed to Sha1 for the two trees and the file
    files,             \* <<content>> of a regular file hashed with the trees
    readdir,           \* <<order, order>>: how the filesystem lists file names
    visits,            \* <<paths, paths>>: relative paths in the order visited
    race,              \* <<>>, or <<[path, at, aborted]>>: a descendant vanished
    \* bibtex_serialize_names on its own; a string is its sequence of characters
    bib_field,         \* argument `field`
    bib_names,         \* argument `names`: <<>> for None, <<list of Name>> for Some
    bib_out            \* <<>>, or <<the string returned>>

vars == <<disk, clock, cacheFile, catalogFile, pc, disable_cache,
          remove_orphans, now, catalog, cache, cache_orphans, todo, resources,
          idx, catalog_resources, orphaned, pending, reprompts, ops, runs,
          cat0, cache0, disk0, again, renames, deletes, hashes, removed,
          response, trees, roots, streams, files, readdir, visits, race,
          created, fresh, text0, catalogText, cacheText, typesFile, document_types,
          content_types, bib_field, bib_names, bib_out, stale, aborted>>

runVars == <<now, catalog, cache, cache_orphans, todo, resources, idx,
             catalog_resources, orphaned, pending, reprompts, response>>

hashVars == <<trees, roots, streams, files, readdir, visits, race>>

histVars == <<cat0, cache0, disk0, again, renames, deletes, hashes, removed,
              created, fresh, text0, stale>>

crashVars == <<aborted>>

typeVars == <<document_types, content_types>>

textVars == <<catalogText, cacheText, typesFile>>

bibVars == <<bib_field, bib_names, bib_out>>

\* --------------------------------------------------------------- helpers
Children(d) == {n \in Names : d[n] # NoFile}

\* the file names WalkDir finds at the given depth below the resources
\* directory
EntriesAt(d, depth) ==
    IF depth = 1 THEN Children(d)
    ELSE IF depth = 2
         THEN UNION {NestedNames(d[n].content) : n \in Children(d)}
         ELSE {}

\* the file names of the entries WalkDir yields between two depths
WalkDirNames(d, min_depth, max_depth) ==
    UNION {EntriesAt(d, k) : k \in min_depth..max_depth}

\* a scan that descends into the directories
ScanEntriesDeep(d) == WalkDirNames(d, 1, 2)

\* lines 428-431: min_depth(1).max_depth(1)
ScanEntries(d) == WalkDirNames(d, 1, 1)

\* std::fs::remove_file and std::fs::remove_dir_all on a child
RemoveFile(d, f) == [d EXCEPT ![f] = NoFile]

RemoveDirAll(d, f) == [d EXCEPT ![f] = NoFile]

\* IndexMap::get on the cache: position of the key, 0 when absent
CacheIdx(c, key) ==
    IF \E i \in 1..Len(c) : c[i].key = key
    THEN CHOOSE i \in 1..Len(c) : c[i].key = key
    ELSE 0

\* IndexMap::insert on the cache: replace in place or append
CacheInsert(c, key, lv, sum) ==
    LET e == [key |-> key, last_verified |-> lv, checksum |-> sum]
        i == CacheIdx(c, key)
    IN IF i = 0 THEN Append(c, e) ELSE [c EXCEPT ![i] = e]

\* IndexMap::remove (swap_remove): the last element takes the removed slot
SwapRemove(s, i) ==
    IF i = Len(s) THEN SubSeq(s, 1, Len(s) - 1)
    ELSE SubSeq([s EXCEPT ![i] = s[Len(s)]], 1, Len(s) - 1)

RECURSIVE CacheRemoveAll(_, _)
CacheRemoveAll(c, keys) ==
    IF keys = {} THEN c
    ELSE LET k == CHOOSE k \in keys : TRUE
             i == CacheIdx(c, k)
         IN CacheRemoveAll(IF i = 0 THEN c ELSE SwapRemove(c, i), keys \ {k})

\* stable insertion of e into a sequence sorted by the rank function rk:
\* e goes after every element that is not greater
RECURSIVE InsertSorted(_, _, _)
InsertSorted(s, e, rk) ==
    IF s = <<>> THEN <<e>>
    ELSE IF rk[e] < rk[s[Len(s)]]
         THEN Append(InsertSorted(SubSeq(s, 1, Len(s) - 1), e, rk), s[Len(s)])
         ELSE Append(s, e)

\* a stable sort, as slice::sort_by and IndexMap::sort_by are
RECURSIVE StableSort(_, _)
StableSort(s, rk) ==
    IF s = <<>> THEN <<>>
    ELSE InsertSorted(StableSort(SubSeq(s, 1, Len(s) - 1), rk), s[Len(s)], rk)

\* cache.sort_by on the keys
CacheSort(c) == StableSort(c, [e \in Range(c) |-> StrRank(e.key)])

\* original digest of a catalog entry: historical_checksums[0]
Original(r) == r.historical_checksums[1]

\* position of the entry keyed by the original digest k, 0 when absent
CatIdx(m, k) ==
    IF \E i \in 1..Len(m) : Original(m[i]) = k
    THEN CHOOSE i \in 1..Len(m) : Original(m[i]) = k
    ELSE 0

\* a map that stores every inserted entry, whatever its key
CatAppend(m, r) == Append(m, r)

\* IndexMap::insert on catalog_resources
CatInsert(m, r) ==
    LET i == CatIdx(m, Original(r))
    IN IF i = 0 THEN Append(m, r) ELSE [m EXCEPT ![i] = r]

\* lines 60-67: the lookup map built from self.resources
RECURSIVE BuildMap(_)
BuildMap(rs) ==
    IF rs = <<>> THEN <<>>
    ELSE CatInsert(BuildMap(SubSeq(rs, 1, Len(rs) - 1)), rs[Len(rs)])

\* Ord on i32 and on String, as an Ordering
IntCmp(x, y) == IF x < y THEN "Less" ELSE IF x > y THEN "Greater" ELSE "Equal"

StrCmp(x, y) == IntCmp(StrRank(x), StrRank(y))

\* PartialOrd on Option<i32> and Option<String>: None is less than Some.
\* An Option<String> is "None" or the string; an Option of a number or of a
\* DateTime is <<>> for None and <<v>> for Some(v)
OptIntCmp(x, y) ==
    IF x = <<>> THEN (IF y = <<>> THEN "Equal" ELSE "Less")
    ELSE IF y = <<>> THEN "Greater" ELSE IntCmp(x[1], y[1])

OptStrCmp(x, y) ==
    IF x = "None" THEN (IF y = "None" THEN "Equal" ELSE "Less")
    ELSE IF y = "None" THEN "Greater" ELSE StrCmp(x, y)

\* DateTime::new(): every member None
DateTimeNew ==
    [year |-> <<>>, month |-> <<>>, day |-> <<>>, hour |-> <<>>,
     minute |-> <<>>, second |-> <<>>]

\* the members of DateTime in declaration order
DateMembers == <<"year", "month", "day", "hour", "minute", "second">>

\* #[derive(PartialOrd)] on DateTime: the first member that differs decides
RECURSIVE DateCmpFrom(_, _, _)
DateCmpFrom(x, y, i) ==
    IF i > Len(DateMembers) THEN "Equal"
    ELSE LET c == OptIntCmp(x[DateMembers[i]], y[DateMembers[i]])
         IN IF c = "Equal" THEN DateCmpFrom(x, y, i + 1) ELSE c

OptDateCmp(x, y) ==
    IF x = <<>> THEN (IF y = <<>> THEN "Equal" ELSE "Less")
    ELSE IF y = <<>> THEN "Greater" ELSE DateCmpFrom(x[1], y[1], 1)

\* a comparator that breaks ties of the title by edition before date
ResourceCmpEditionFirst(a, b) ==
    LET title_cmp == StrCmp(a.title, b.title)
        date_cmp == OptDateCmp(a.date, b.date)
        edition_cmp == OptStrCmp(a.edition, b.edition)
        version_cmp == OptStrCmp(a.version, b.version)
    IN IF title_cmp = "Equal"
       THEN IF edition_cmp = "Equal"
            THEN IF date_cmp = "Equal"
                 THEN IF version_cmp = "Equal"
                      THEN OptStrCmp(a.volume, b.volume)
                      ELSE version_cmp
                 ELSE date_cmp
            ELSE edition_cmp
       ELSE title_cmp

\* lines 225-249: the closure given to self.resources.sort_by
ResourceCmp(a, b) ==
    LET title_cmp == StrCmp(a.title, b.title)
        date_cmp == OptDateCmp(a.date, b.date)
        edition_cmp == OptStrCmp(a.edition, b.edition)
        version_cmp == OptStrCmp(a.version, b.version)
    IN IF title_cmp = "Equal"
       THEN IF date_cmp = "Equal"
            THEN IF edition_cmp = "Equal"
                 THEN IF version_cmp = "Equal"
                      THEN OptStrCmp(a.volume, b.volume)
                      ELSE version_cmp
                 ELSE edition_cmp
            ELSE date_cmp
       ELSE title_cmp

\* the position the comparator gives each entry: the number of entries
\* that compare Less than it
ResourceRank(rs) ==
    [r \in Range(rs) |->
        Cardinality({x \in Range(rs) : ResourceCmp(x, r) = "Less"})]

\* self.resources.sort_by
SortResources(rs) == StableSort(rs, ResourceRank(rs))

\* HashSet catalog_resources of librarian_catalog
CatalogedNames == {Original(catalog[i]) : i \in 1..Len(catalog)}

NoSnapshotDigests == {}

SnapshotDigests == {resources[i][1] : i \in 1..Len(resources)}

\* the characters of the strings that are file names or extensions
Chars(s) ==
    CASE s = "a" -> <<"a">>
      [] s = "b" -> <<"b">>
      [] s = "d1" -> <<"d", "1">>
      [] s = "d2" -> <<"d", "2">>
      [] s = "d3" -> <<"d", "3">>
      [] s = "a.p" -> <<"a", ".", "p">>
      [] s = "a.P" -> <<"a", ".", "P">>
      [] s = "a.U+00C9" -> <<"a", ".", "U+00C9">>
      [] s = ".p" -> <<".", "p">>
      [] s = "p" -> <<"p">>
      [] s = "P" -> <<"P">>
      [] s = "U+00C9" -> <<"U+00C9">>
      [] s = "U+00E9" -> <<"U+00E9">>

Strings ==
    {"a", "b", "d1", "d2", "d3", "a.p", "a.P", "a.U+00C9", ".p", "p", "P",
     "U+00C9", "U+00E9"}

\* the string made of the characters cs
Str(cs) == CHOOSE s \in Strings : Chars(s) = cs

\* position of the last dot of a file name, 0 when it has none
LastDot(cs) ==
    IF \E i \in 1..Len(cs) : cs[i] = "."
    THEN CHOOSE i \in 1..Len(cs) :
            cs[i] = "." /\ \A j \in (i + 1)..Len(cs) : cs[j] # "."
    ELSE 0

\* Path::extension: what follows the last dot; None without a dot and for a
\* name whose only dot is the first character
Extension(file_name) ==
    LET cs == Chars(file_name)
        i == LastDot(cs)
    IN IF i <= 1 THEN "None" ELSE Str(SubSeq(cs, i + 1, Len(cs)))

\* Path::file_stem: what precedes the last dot, the whole name when
\* extension() is None
FileStem(file_name) ==
    LET cs == Chars(file_name)
        i == LastDot(cs)
    IN IF i <= 1 THEN file_name ELSE Str(SubSeq(cs, 1, i - 1))

\* u8/char::to_ascii_lowercase: only A-Z change
AsciiLowerChar(c) == IF c = "P" THEN "p" ELSE c

\* char::to_lowercase: the Unicode lower case mapping
LowerChar(c) ==
    IF c = "P" THEN "p" ELSE IF c = "U+00C9" THEN "U+00E9" ELSE c

\* OsStr::to_ascii_lowercase (line 115)
ToAsciiLowercase(s) ==
    Str([i \in 1..Len(Chars(s)) |-> AsciiLowerChar(Chars(s)[i])])

\* str::to_lowercase (line 80)
ToLowercase(s) ==
    Str([i \in 1..Len(Chars(s)) |-> LowerChar(Chars(s)[i])])

\* lines 74-81 and 117: doc_types.get(e): the name of the document type
\* whose lower-cased extension is e, the last such one having replaced the
\* others in the map; None when there is none
DocTypesGet(dts, e) ==
    LET hits == {i \in 1..Len(dts) : ToLowercase(dts[i].extension) = e}
    IN IF hits = {} THEN "None"
       ELSE dts[CHOOSE i \in hits : \A j \in hits : j <= i].name

\* lines 112-141: doc_type for the path of a new resource
DocType(file_name, dts) ==
    IF Extension(file_name) = "None" THEN "None"
    ELSE DocTypesGet(dts, ToAsciiLowercase(Extension(file_name)))

\* lines 86-91 and 122-127: the title is the file name, or the file stem
\* when a document type was found
Title(file_name, dts) ==
    IF DocType(file_name, dts) # "None" THEN FileStem(file_name)
    ELSE file_name

\* lines 147-168: the Resource Catalog::update creates for a new file
NewResource(title, doc_type, checksum) ==
    [title |-> title, date |-> <<>>, edition |-> "None",
     version |-> "None", volume |-> "None", document |-> doc_type,
     checksum |-> checksum, historical_checksums |-> <<checksum>>]

\* a rename that leaves the source in place (a copy)
RenameKeepsSource(d, from, to) ==
    IF from = to THEN d ELSE [d EXCEPT ![to] = d[from]]

\* std::fs::rename inside the resources directory: replaces the target
Rename(d, from, to) ==
    IF from = to THEN d
    ELSE [d EXCEPT ![to] = d[from], ![from] = NoFile]

\* ------------------------------------------------------------------- Init
\* no process has run yet
NoRunYet ==
    /\ clock = 0
    /\ pc = "idle"
    /\ disable_cache = FALSE
    /\ remove_orphans = "false"
    /\ now = 0
    /\ catalog = <<>>
    /\ cache = <<>>
    /\ cache_orphans = {}
    /\ todo = {}
    /\ resources = <<>>
    /\ idx = 0
    /\ catalog_resources = <<>>
    /\ orphaned = {}
    /\ pending = {}
    /\ reprompts = 0
    /\ ops = 0
    /\ runs = 0
    /\ cat0 = <<>>
    /\ cache0 = <<>>
    /\ disk0 = [n \in Names |-> NoFile]
    /\ again = FALSE
    /\ renames = {}
    /\ deletes = {}
    /\ hashes = {}
    /\ removed = {}
    /\ response = ""
    /\ created = {}
    /\ fresh = {}
    /\ text0 = <<"", "">>
    /\ stale = {}
    /\ aborted = <<>>
    /\ document_types = <<>>
    /\ content_types = <<>>

\* nothing is being hashed on its own
NoHashing ==
    /\ trees = <<>>
    /\ roots = <<>>
    /\ streams = <<>>
    /\ files = <<>>
    /\ readdir = <<>>
    /\ visits = <<>>
    /\ race = <<>>

\* nothing is being serialized on its own
NoBibtex ==
    /\ bib_field = <<>>
    /\ bib_names = <<>>
    /\ bib_out = <<>>

\* lines 268-276: the maps of the catalog an empty file is initialised to
EmptyTypes == [document_types |-> <<>>, content_types |-> <<>>]

\* an empty library: no children, empty catalog and cache files
Init ==
    /\ disk = [n \in Names |-> NoFile]
    /\ cacheFile = <<>>
    /\ catalogFile = <<>>
    /\ catalogText = ""
    /\ cacheText = ""
    /\ typesFile = EmptyTypes
    /\ NoRunYet
    /\ NoHashing
    /\ NoBibtex

Idle == pc \in {"idle", "done"}

\* what is left of a process when it is not running
ResetRun ==
    /\ now' = 0
    /\ catalog' = <<>>
    /\ cache' = <<>>
    /\ cache_orphans' = {}
    /\ todo' = {}
    /\ resources' = <<>>
    /\ idx' = 0
    /\ catalog_resources' = <<>>
    /\ orphaned' = {}
    /\ pending' = {}
    /\ reprompts' = 0
    /\ response' = ""
    /\ document_types' = <<>>
    /\ content_types' = <<>>

ResetHist ==
    /\ cat0' = <<>>
    /\ cache0' = <<>>
    /\ disk0' = [n \in Names |-> NoFile]
    /\ again' = FALSE
    /\ renames' = {}
    /\ deletes' = {}
    /\ hashes' = {}
    /\ removed' = {}
    /\ created' = {}
    /\ fresh' = {}
    /\ text0' = <<"", "">>
    /\ stale' = {}

\* the operator touched the directory: the last run is history
OperatorEvent ==
    /\ ops < MaxOps
    /\ ops' = ops + 1
    /\ pc' = "idle"
    /\ disable_cache' = FALSE
    /\ remove_orphans' = "false"
    /\ ResetRun
    /\ ResetHist
    /\ UNCHANGED <<clock, cacheFile, catalogFile, runs>>
    /\ UNCHANGED hashVars
    /\ UNCHANGED bibVars
    /\ UNCHANGED textVars

\* ------------------------------------------------------- operator actions
AddFile ==
    /\ Idle
    /\ \E n \in PlainNames, c \in Contents :
        /\ disk[n] = NoFile
        /\ disk' = [disk EXCEPT ![n] = [content |-> c, mtime |-> clock]]
    /\ OperatorEvent
    /\ aborted' = <<>>

EditFile ==
    /\ Idle
    /\ \E n \in Names, c \in Contents :
        /\ disk[n] # NoFile
        /\ disk[n].content # c
        /\ disk' = [disk EXCEPT ![n] = [content |-> c, mtime |-> clock]]
    /\ OperatorEvent
    /\ aborted' = <<>>

DeleteFile ==
    /\ Idle
    /\ \E n \in Names :
        /\ disk[n] # NoFile
        /\ disk' = [disk EXCEPT ![n] = NoFile]
    /\ OperatorEvent
    /\ aborted' = <<>>

Tick ==
    /\ Idle
    /\ clock < MaxTime
    /\ clock' = clock + 1
    /\ UNCHANGED <<disk, cacheFile, catalogFile, pc, disable_cache,
                   remove_orphans, ops, runs>>
    /\ UNCHANGED runVars
    /\ UNCHANGED histVars
    /\ UNCHANGED hashVars
    /\ UNCHANGED bibVars
    /\ UNCHANGED crashVars
    /\ UNCHANGED typeVars
    /\ UNCHANGED textVars

\* ------------------------------------------------------ librarian_catalog
\* catalog.rs 267-280 and cache.rs 37-42: an empty file is first given the
\* text of an empty catalog (an empty cache), which is what is then parsed
InitialContents(text) == IF text = "" THEN "json" ELSE text

\* a load that hands the text read to the parser as it is
ParseFailsOnEmpty(text) == text # "json"

\* a parser that accepts any text as an empty catalog (cache)
ParseFailsNever(text) == FALSE

\* catalog.rs 282 and cache.rs 44-45: serde_json::from_str(..).unwrap()
\* panics unless the text has the expected shape
ParseFails(text) == InitialContents(text) # "json"

\* what the parser returns for the text of a file whose value is parsed
Parsed(text, parsed, empty) == IF text = "json" THEN parsed ELSE empty

\* IndexMap::sort_keys on the maps of the catalog
SortKeys(m) == StableSort(m, [e \in Range(m) |-> StrRank(e.name)])

\* main + librarian_catalog lines 387-427: load catalog and cache, read the
\* clock, clone the cache, start enumerating the directory
StartRun ==
    /\ Idle
    /\ runs < MaxRuns
    /\ ~ParseFails(catalogText)
    /\ ~ParseFails(cacheText)
    /\ catalogText' = InitialContents(catalogText)
    /\ cacheText' = InitialContents(cacheText)
    /\ document_types' = Parsed(catalogText, typesFile.document_types, <<>>)
    /\ content_types' = Parsed(catalogText, typesFile.content_types, <<>>)
    /\ created' = {}
    /\ fresh' = IF pc = "done"
               THEN {d \in created :
                        \A j \in 1..Len(cat0) : Original(cat0[j]) # d}
               ELSE {}
    /\ text0' = <<catalogText, cacheText>>
    /\ runs' = runs + 1
    /\ \E dc \in BOOLEAN, ro \in Policies :
        /\ disable_cache' = dc
        /\ remove_orphans' = ro
        /\ again' = (pc = "done" /\ dc = disable_cache /\ ro = remove_orphans)
    /\ pc' = "scan"
    /\ now' = clock
    /\ catalog' = Parsed(catalogText, catalogFile, <<>>)
    /\ cache' = Parsed(cacheText, cacheFile, <<>>)
    /\ cache_orphans' =
        {cache'[i].key : i \in 1..Len(cache')}
    /\ todo' = ScanEntries(disk)
    /\ resources' = <<>>
    /\ idx' = 0
    /\ catalog_resources' = <<>>
    /\ orphaned' = {}
    /\ pending' = {}
    /\ reprompts' = 0
    /\ cat0' = catalogFile
    /\ cache0' = cacheFile
    /\ disk0' = disk
    /\ renames' = {}
    /\ deletes' = {}
    /\ hashes' = {}
    /\ removed' = {}
    /\ response' = ""
    /\ UNCHANGED <<disk, clock, cacheFile, catalogFile, typesFile, ops>>
    /\ UNCHANGED hashVars
    /\ UNCHANGED bibVars
    /\ stale' = {}
    /\ aborted' = IF pc = "done" THEN <<>> ELSE aborted

\* the load of the catalog (before librarian_catalog is called) or of the
\* cache (line 398) panics: the process ends before the scan.  An empty
\* catalog file has been initialised by then if its load came through
LoadFails ==
    /\ Idle
    /\ runs < MaxRuns
    /\ ParseFails(catalogText) \/ ParseFails(cacheText)
    /\ runs' = runs + 1
    /\ catalogText' = IF ParseFails(catalogText) THEN catalogText
                      ELSE InitialContents(catalogText)
    /\ pc' = "idle"
    /\ ResetRun
    /\ cat0' = catalogFile
    /\ cache0' = cacheFile
    /\ disk0' = disk
    /\ text0' = <<catalogText, cacheText>>
    /\ again' = FALSE
    /\ renames' = {}
    /\ deletes' = {}
    /\ hashes' = {}
    /\ removed' = {}
    /\ created' = {}
    /\ fresh' = {}
    /\ stale' = {}
    /\ UNCHANGED <<disk, clock, cacheFile, catalogFile, cacheText, typesFile,
                   disable_cache, remove_orphans, ops>>
    /\ UNCHANGED hashVars
    /\ UNCHANGED bibVars
    /\ UNCHANGED crashVars

\* the comparison with >= : an entry verified in the second of the
\* modification is recomputed
CacheInvalidSameSecond(f) ==
    \/ disable_cache
    \/ CacheIdx(cache, f) = 0
    \/ disk[f].mtime >= cache[CacheIdx(cache, f)].last_verified

\* lines 446-478: must the checksum be recomputed?
CacheInvalid(f) ==
    \/ disable_cache
    \/ CacheIdx(cache, f) = 0
    \/ disk[f].mtime > cache[CacheIdx(cache, f)].last_verified

\* lines 480-506: the checksum the scan uses for f
ContentSha(f) ==
    IF CacheInvalid(f) THEN Sha1(disk[f].content)
    ELSE cache[CacheIdx(cache, f)].checksum

\* the cache keyed by the current file name in every case
CacheKeyFileName(f, checksum) == f

\* lines 483-494
CacheKey(f, checksum) ==
    IF f \notin CatalogedNames THEN checksum ELSE f

\* lines 432-526: the closure body, for the child WalkDir yields next
ScanChild ==
    /\ pc = "scan"
    /\ \E f \in todo :
        LET content_sha == ContentSha(f)
        IN /\ todo' = todo \ {f}
           /\ cache_orphans' = cache_orphans \ {f}
           /\ IF CacheInvalid(f)
              THEN /\ cache' = CacheInsert(cache, CacheKey(f, content_sha),
                                           now, content_sha)
                   /\ hashes' = hashes \cup {f}
                   /\ UNCHANGED stale
              ELSE /\ stale' =
                        IF content_sha # Sha1(disk[f].content)
                        THEN stale \cup {f} ELSE stale
                   /\ UNCHANGED <<cache, hashes>>
           /\ IF content_sha \in SnapshotDigests
              THEN /\ disk' = IF IsDir(disk[f].content)
                              THEN RemoveDirAll(disk, f)
                              ELSE RemoveFile(disk, f)
                   /\ deletes' = deletes \cup {f}
                   /\ UNCHANGED resources
              ELSE /\ resources' = Append(resources, <<content_sha, f>>)
                   /\ UNCHANGED <<disk, deletes>>
    /\ UNCHANGED <<clock, cacheFile, catalogFile, pc, disable_cache,
                   remove_orphans, now, catalog, idx, catalog_resources,
                   orphaned, pending, reprompts, ops, runs, cat0, cache0,
                   disk0, again, renames, removed, response>>
    /\ UNCHANGED hashVars
    /\ UNCHANGED bibVars
    /\ UNCHANGED crashVars
    /\ UNCHANGED <<created, fresh, text0>>
    /\ UNCHANGED typeVars
    /\ UNCHANGED textVars

\* lines 528-540 and Catalog::update lines 52-67: prune and sort the cache,
\* write it, then enter update and build the lookup map and the orphan set
WriteCache ==
    /\ pc = "scan"
    /\ todo = {}
    /\ LET pruned == CacheSort(CacheRemoveAll(cache, cache_orphans))
       IN /\ cache' = pruned
          /\ cacheFile' = pruned
    /\ catalog_resources' = BuildMap(catalog)
    /\ orphaned' = CatalogedNames
    /\ idx' = 0
    /\ pc' = "update"
    /\ UNCHANGED <<disk, clock, catalogFile, disable_cache, remove_orphans,
                   now, catalog, cache_orphans, todo, resources, pending,
                   reprompts, ops, runs, response>>
    /\ UNCHANGED histVars
    /\ UNCHANGED hashVars
    /\ UNCHANGED bibVars
    /\ UNCHANGED crashVars
    /\ cacheText' = "json"
    /\ UNCHANGED <<catalogText, typesFile>>
    /\ UNCHANGED typeVars

\* the matched branch without `r.checksum = new_checksum`
UpdateMatchedStaleChecksum(m, file_name, checksum) ==
    LET i == CatIdx(m, file_name)
        r == m[i]
    IN IF r.checksum # checksum
       THEN [m EXCEPT ![i] = [r EXCEPT
                !.historical_checksums = Append(@, checksum)]]
       ELSE m

\* the matched branch without the comparison with the current checksum
UpdateMatchedAlwaysPush(m, file_name, checksum) ==
    LET i == CatIdx(m, file_name)
        r == m[i]
    IN [m EXCEPT ![i] = [r EXCEPT
            !.historical_checksums = Append(@, checksum),
            !.checksum = checksum]]

\* lines 94-101: the file name is the original digest of an entry
UpdateMatched(m, file_name, checksum) ==
    LET i == CatIdx(m, file_name)
        r == m[i]
    IN IF r.checksum # checksum
       THEN [m EXCEPT ![i] = [r EXCEPT
                !.historical_checksums = Append(@, checksum),
                !.checksum = checksum]]
       ELSE m

\* an iteration that renames the file to its checksum in both branches
DiskAfterEntryRenaming(d, matched, file_name, checksum) ==
    Rename(d, file_name, checksum)

\* lines 92-143: the directory after one iteration: only the branch for a
\* new resource calls std::fs::rename
DiskAfterEntry(d, matched, file_name, checksum) ==
    IF matched THEN d ELSE Rename(d, file_name, checksum)

\* lines 85-172: one iteration of the loop over the snapshot
UpdateEntry ==
    /\ pc = "update"
    /\ idx < Len(resources)
    /\ idx' = idx + 1
    /\ LET checksum == resources[idx + 1][1]
           file_name == resources[idx + 1][2]
           matched == CatIdx(catalog_resources, file_name) # 0
       IN /\ disk' = DiskAfterEntry(disk, matched, file_name, checksum)
          /\ IF matched
             THEN /\ catalog_resources' =
                     UpdateMatched(catalog_resources, file_name, checksum)
                  /\ orphaned' = orphaned \ {file_name}
                  /\ UNCHANGED <<renames, created>>
             ELSE /\ renames' = IF file_name = checksum THEN renames
                                ELSE renames \cup {file_name}
                  /\ created' = created \cup {checksum}
                  /\ catalog_resources' =
                     CatInsert(catalog_resources,
                               NewResource(Title(file_name, document_types),
                                           DocType(file_name, document_types),
                                           checksum))
                  /\ UNCHANGED orphaned
    /\ UNCHANGED <<clock, cacheFile, catalogFile, pc, disable_cache,
                   remove_orphans, now, catalog, cache, cache_orphans, todo,
                   resources, pending, reprompts, ops, runs, cat0, cache0,
                   disk0, again, deletes, hashes, removed, response, fresh,
                   text0, stale>>
    /\ UNCHANGED hashVars
    /\ UNCHANGED bibVars
    /\ UNCHANGED crashVars
    /\ UNCHANGED typeVars
    /\ UNCHANGED textVars

\* line 176: the loop over the snapshot is over, the orphan loop starts
BeginOrphans ==
    /\ pc = "update"
    /\ idx = Len(resources)
    /\ pending' = orphaned
    /\ pc' = "orphans"
    /\ UNCHANGED <<disk, clock, cacheFile, catalogFile, disable_cache,
                   remove_orphans, now, catalog, cache, cache_orphans, todo,
                   resources, idx, catalog_resources, orphaned, reprompts,
                   ops, runs, response>>
    /\ UNCHANGED histVars
    /\ UNCHANGED hashVars
    /\ UNCHANGED bibVars
    /\ UNCHANGED crashVars
    /\ UNCHANGED typeVars
    /\ UNCHANGED textVars

\* lines 206-208
RemoveEntry(m, k) ==
    IF CatIdx(m, k) = 0 THEN m ELSE SwapRemove(m, CatIdx(m, k))

\* a policy switch that deletes under "false" as well
DeleteOrphanAlways(policy, answer) == TRUE

\* a policy switch that keeps every orphan without asking
DeleteOrphanNever(policy, answer) == FALSE

\* a prompt that takes "n\n" for the affirmative answer
DeleteOrphanOnNo(policy, answer) ==
    CASE policy = "true" -> TRUE
      [] policy = "false" -> FALSE
      [] OTHER -> (answer = "n\n")

\* lines 177-204: `delete`, from the policy and the answer accepted
DeleteOrphan(policy, answer) ==
    CASE policy = "true" -> TRUE
      [] policy = "false" -> FALSE
      [] OTHER -> (answer = "y\n")

\* what stdin().read_line (line 185) may leave in `response`: an answer, an
\* empty line, some other line, nothing at the end of the input, and
\* nothing on a read error
Lines == {"y\n", "n\n", "\n", "x\n", "", "Err"}

\* a loop that takes the end of the input for an answer
RepromptUnlessEof(line) == line \notin {"y\n", "n\n", ""}

\* lines 185-200: is the prompt printed again for the same orphan?
Reprompt(line) == line \notin {"y\n", "n\n"}

\* lines 176-209: one orphan is decided; under "ask" by the answer read
ResolveOrphan ==
    /\ pc = "orphans"
    /\ \E o \in pending, answer \in {line \in Lines : ~Reprompt(line)} :
        LET delete == DeleteOrphan(remove_orphans, answer)
        IN /\ pending' = pending \ {o}
           /\ response' = IF remove_orphans = "ask" THEN answer ELSE ""
           /\ IF delete
              THEN /\ catalog_resources' = RemoveEntry(catalog_resources, o)
                   /\ removed' = removed \cup {o}
              ELSE UNCHANGED <<catalog_resources, removed>>
    /\ reprompts' = 0
    /\ UNCHANGED <<disk, clock, cacheFile, catalogFile, pc, disable_cache,
                   remove_orphans, now, catalog, cache, cache_orphans, todo,
                   resources, idx, orphaned, ops, runs, cat0, cache0, disk0,
                   again, renames, deletes, hashes>>
    /\ UNCHANGED hashVars
    /\ UNCHANGED bibVars
    /\ UNCHANGED crashVars
    /\ UNCHANGED <<created, fresh, text0, stale>>
    /\ UNCHANGED typeVars
    /\ UNCHANGED textVars

\* lines 191-199: anything but "y\n" or "n\n" is asked again
AskAgain ==
    /\ pc = "orphans"
    /\ remove_orphans = "ask"
    /\ pending # {}
    /\ \E line \in Lines : Reprompt(line)
    /\ reprompts < MaxReprompts
    /\ reprompts' = reprompts + 1
    /\ response' = ""
    /\ UNCHANGED <<disk, clock, cacheFile, catalogFile, pc, disable_cache,
                   remove_orphans, now, catalog, cache, cache_orphans, todo,
                   resources, idx, catalog_resources, orphaned, pending, ops,
                   runs>>
    /\ UNCHANGED histVars
    /\ UNCHANGED hashVars
    /\ UNCHANGED bibVars
    /\ UNCHANGED crashVars
    /\ UNCHANGED typeVars
    /\ UNCHANGED textVars

\* lines 211-253 and 541-542: collect, sort, persist the catalog
Finish ==
    /\ pc = "orphans"
    /\ pending = {}
    /\ LET sorted == SortResources(catalog_resources)
       IN /\ catalog' = sorted
          /\ catalogFile' = sorted
    /\ document_types' = SortKeys(document_types)
    /\ content_types' = SortKeys(content_types)
    /\ typesFile' = [document_types |-> SortKeys(document_types),
                     content_types |-> SortKeys(content_types)]
    /\ catalogText' = "json"
    /\ UNCHANGED cacheText
    /\ pc' = "done"
    /\ UNCHANGED <<disk, clock, cacheFile, disable_cache, remove_orphans, now,
                   cache, cache_orphans, todo, resources, idx,
                   catalog_resources, orphaned, pending, reprompts, ops, runs,
                   response>>
    /\ UNCHANGED histVars
    /\ UNCHANGED hashVars
    /\ UNCHANGED bibVars
    /\ UNCHANGED crashVars

\* the original digests of the entries of a catalog
Originals(m) == {Original(m[i]) : i \in 1..Len(m)}

\* lines 85-172: the lookup map and the orphan set after the iterations
\* from entry i of the snapshot on
RECURSIVE UpdateLoop(_, _, _, _, _)
UpdateLoop(m, orph, rs, i, dts) ==
    IF i > Len(rs) THEN [map |-> m, orphaned |-> orph]
    ELSE LET checksum == rs[i][1]
             file_name == rs[i][2]
         IN IF CatIdx(m, file_name) # 0
            THEN UpdateLoop(UpdateMatched(m, file_name, checksum),
                            orph \ {file_name}, rs, i + 1, dts)
            ELSE UpdateLoop(CatInsert(m, NewResource(Title(file_name, dts),
                                                     DocType(file_name, dts),
                                                     checksum)),
                            orph, rs, i + 1, dts)

\* lines 85-211: the original digests Catalog::update ends with when it
\* goes on from where it is, under a policy that asks nothing
UpdateOriginals ==
    LET end == IF pc = "orphans"
               THEN [map |-> catalog_resources, orphaned |-> pending]
               ELSE UpdateLoop(catalog_resources, orphaned, resources,
                               idx + 1, document_types)
    IN Originals(end.map)
       \ {o \in end.orphaned : DeleteOrphan(remove_orphans, "")}

\* the process is killed or panics in the middle of a run; `aborted` keeps
\* the new resources renamed by lines 142-143 that catalog.json does not hold
Crash ==
    /\ ~Idle
    /\ OperatorEvent
    /\ UNCHANGED disk
    /\ aborted' =
        IF pc \in {"update", "orphans"} /\ created \ Originals(cat0) # {}
        THEN <<[names |-> created \ Originals(cat0),
                policy |-> remove_orphans,
                expect |-> UpdateOriginals]>>
        ELSE <<>>

Next ==
    \/ AddFile
    \/ EditFile
    \/ DeleteFile
    \/ Tick
    \/ Crash
    \/ StartRun
    \/ ScanChild
    \/ WriteCache
    \/ UpdateEntry
    \/ BeginOrphans
    \/ ResolveOrphan
    \/ AskAgain
    \/ Finish

Spec == Init /\ [][Next]_vars

\* every run that starts runs to completion
NextNoCrash ==
    \/ AddFile
    \/ EditFile
    \/ DeleteFile
    \/ Tick
    \/ StartRun
    \/ ScanChild
    \/ WriteCache
    \/ UpdateEntry
    \/ BeginOrphans
    \/ ResolveOrphan
    \/ AskAgain
    \/ Finish

SpecNoCrash == Init /\ [][NextNoCrash]_vars

\* ------------------------------------------- runs on a hand-edited catalog
\* metadata the operator may have written into catalog.json
SortTitles == {"a", "b"}

SortDates ==
    {<<>>, <<DateTimeNew>>, <<[DateTimeNew EXCEPT !.year = <<1>>]>>,
     <<[DateTimeNew EXCEPT !.month = <<1>>]>>}

SortOptStrings == {"None", "a"}

\* the entries catalog.json may hold for the original digest d
EditedResources(d) ==
    {[title |-> t, date |-> da, edition |-> e, version |-> ve, volume |-> vo,
      document |-> "None", checksum |-> d, historical_checksums |-> <<d>>] :
        t \in SortTitles, da \in SortDates, e \in SortOptStrings,
        ve \in SortOptStrings, vo \in SortOptStrings}

\* catalogs of at most two entries, in any order, with distinct originals
EditedCatalogs ==
    {<<>>}
    \cup {<<r>> : r \in UNION {EditedResources(d) : d \in Digests}}
    \cup {<<r1, r2>> : r1 \in EditedResources("d1"), r2 \in EditedResources("d2")}
    \cup {<<r2, r1>> : r1 \in EditedResources("d1"), r2 \in EditedResources("d2")}

\* an empty resources directory and a catalog file the operator has edited
InitSort ==
    /\ catalogFile \in EditedCatalogs
    /\ catalogText = "json"
    /\ cacheText = ""
    /\ typesFile = EmptyTypes
    /\ disk = [n \in Names |-> NoFile]
    /\ cacheFile = <<>>
    /\ NoRunYet
    /\ NoHashing
    /\ NoBibtex

NextSort ==
    \/ StartRun
    \/ WriteCache
    \/ BeginOrphans
    \/ ResolveOrphan
    \/ AskAgain
    \/ Finish

SpecSort == InitSort /\ [][NextSort]_vars

\* ------------------------------------- runs on files found in any state
FileTexts == {"", "json", "garbage"}

\* catalog.json holds no entry, or one for a resource that was named a
LoadCatalogs == {<<>>, <<NewResource("a", "None", "d2")>>}

\* .cache holds no entry, or one verified at time 0
LoadCaches ==
    {<<>>, <<[key |-> "d1", last_verified |-> 0, checksum |-> "d1"]>>}

LoadDisks ==
    {[n \in Names |-> IF n = "a" THEN [content |-> "c1", mtime |-> 0]
                      ELSE NoFile],
     [n \in Names |-> IF n = "d1" THEN [content |-> "c1", mtime |-> 0]
                      ELSE IF n = "b" THEN [content |-> "c2", mtime |-> 0]
                      ELSE NoFile]}

\* a library whose catalog and cache files are empty, well-formed or not
\* of the expected shape
InitLoad ==
    /\ catalogText \in FileTexts
    /\ cacheText \in FileTexts
    /\ catalogFile \in (IF catalogText = "json" THEN LoadCatalogs ELSE {<<>>})
    /\ cacheFile \in (IF cacheText = "json" THEN LoadCaches ELSE {<<>>})
    /\ typesFile = EmptyTypes
    /\ disk \in LoadDisks
    /\ NoRunYet
    /\ NoHashing
    /\ NoBibtex

NextLoad ==
    \/ StartRun
    \/ LoadFails
    \/ ScanChild
    \/ WriteCache
    \/ UpdateEntry
    \/ BeginOrphans
    \/ ResolveOrphan
    \/ AskAgain
    \/ Finish

SpecLoad == InitLoad /\ [][NextLoad]_vars

\* ------------------------------------ runs on a catalog with document types
\* file names the operator has given to new resources
DocFileNames == {"a"} \cup DocNames

\* one new file, or two with different contents
DocDisks ==
    {[n \in Names |-> IF n = f THEN [content |-> "c1", mtime |-> 0]
                      ELSE NoFile] : f \in DocFileNames}
    \cup {[n \in Names |-> IF n = p[1] THEN [content |-> "c1", mtime |-> 0]
                           ELSE IF n = p[2] THEN [content |-> "c2", mtime |-> 0]
                           ELSE NoFile] :
            p \in {q \in DocFileNames \X DocFileNames : q[1] # q[2]}}

DocExtensions == {"p", "P", "U+00C9", "U+00E9"}

\* the document_types map of catalog.json, as the operator wrote it
DocTypeMaps ==
    {<<>>}
    \cup {<<[name |-> "t1", extension |-> e]>> : e \in DocExtensions}
    \cup {<<[name |-> "t2", extension |-> e1],
            [name |-> "t1", extension |-> e2]>> :
            e1 \in DocExtensions, e2 \in DocExtensions}

\* new files in the resources directory of a library whose catalog defines
\* document types and has no resources yet
InitDoc ==
    /\ typesFile \in {[document_types |-> m, content_types |-> <<>>] :
                        m \in DocTypeMaps}
    /\ catalogText = "json"
    /\ catalogFile = <<>>
    /\ cacheText = ""
    /\ cacheFile = <<>>
    /\ disk \in DocDisks
    /\ NoRunYet
    /\ NoHashing
    /\ NoBibtex

NextDoc ==
    \/ StartRun
    \/ ScanChild
    \/ WriteCache
    \/ UpdateEntry
    \/ BeginOrphans
    \/ Finish

SpecDoc == InitDoc /\ [][NextDoc]_vars

\* ------------------------------------- runs on directories as resources
\* the operator drops a directory into the resources directory
AddDir ==
    /\ Idle
    /\ \E n \in PlainNames, c \in DirContents :
        /\ disk[n] = NoFile
        /\ disk' = [disk EXCEPT ![n] = [content |-> c, mtime |-> clock]]
    /\ OperatorEvent
    /\ aborted' = <<>>

\* directories and files come and go between runs that run to completion
NextTree ==
    \/ AddDir
    \/ AddFile
    \/ DeleteFile
    \/ StartRun
    \/ ScanChild
    \/ WriteCache
    \/ UpdateEntry
    \/ BeginOrphans
    \/ ResolveOrphan
    \/ AskAgain
    \/ Finish

SpecTree == Init /\ [][NextTree]_vars

\* ------------------------------------------------- the content hasher
\* Bytes are characters, file names and file contents are sequences of
\* bytes, a path is a sequence of file names.  A tree is the set of the
\* descendants of a directory, each [path, is_file, content] with the path
\* relative to the directory.  What is fed to the hasher stands for the
\* digest: SHA-1 is taken to be collision free.

\* byte values of the characters of the model
ByteOrder == <<"/", "a", "b">>

ByteRank(c) == CHOOSE i \in 1..Len(ByteOrder) : ByteOrder[i] = c

\* Ord on OsStr, which sort_by_file_name compares file names with
RECURSIVE BytesLess(_, _)
BytesLess(s, t) ==
    IF t = <<>> THEN FALSE
    ELSE IF s = <<>> THEN TRUE
    ELSE IF s[1] # t[1] THEN ByteRank(s[1]) < ByteRank(t[1])
    ELSE BytesLess(Tail(s), Tail(t))

\* the entries of the directory dir of the tree
Kids(tree, dir) ==
    {e \in tree : /\ Len(e.path) = Len(dir) + 1
                  /\ SubSeq(e.path, 1, Len(dir)) = dir}

FileName(e) == e.path[Len(e.path)]

\* the permutations of a finite set, as sequences
Perms(S) ==
    {p \in [1..Cardinality(S) -> S] :
        \A i, j \in 1..Cardinality(S) : i # j => p[i] # p[j]}

\* fs::read_dir inside WalkDir: the entries of a directory in the order the
\* filesystem lists their file names
RECURSIVE ReadDir(_, _)
ReadDir(kids, order) ==
    IF order = <<>> THEN <<>>
    ELSE LET here == {k \in kids : FileName(k) = order[1]}
         IN (IF here = {} THEN <<>> ELSE <<CHOOSE k \in here : TRUE>>)
            \o ReadDir(kids, Tail(order))

\* a walk that leaves the entries as the filesystem lists them
SortByFileNameSkipped(entries) == entries

\* line 323, sort_by_file_name: each directory listing is sorted (a stable
\* sort) by file name before it is walked
SortByFileName(entries) ==
    StableSort(entries,
        [e \in Range(entries) |->
            Cardinality({o \in Range(entries) :
                BytesLess(FileName(o), FileName(e))})])

\* lines 321-324: WalkDir with min_depth(1) yields the sorted entries of a
\* directory one by one, each directory followed by its own entries
RECURSIVE Walk(_, _, _)
RECURSIVE WalkList(_, _, _)
Walk(tree, dir, order) ==
    WalkList(tree, SortByFileName(ReadDir(Kids(tree, dir), order)), order)

WalkList(tree, list, order) ==
    IF list = <<>> THEN <<>>
    ELSE <<list[1]>>
         \o (IF list[1].is_file THEN <<>>
             ELSE Walk(tree, list[1].path, order))
         \o WalkList(tree, Tail(list), order)

\* Path::strip_prefix
StripPrefix(path, prefix) == SubSeq(path, Len(prefix) + 1, Len(path))

\* Path::to_str: the file names joined by the separator
RECURSIVE ToStr(_)
ToStr(path) ==
    IF Len(path) = 1 THEN path[1]
    ELSE path[1] \o <<"/">> \o ToStr(Tail(path))

\* lines 294-310: file_sha1 reads the file in chunks of chunk_size bytes and
\* feeds each to the hasher, until a chunk comes back short
RECURSIVE FileSha1(_)
FileSha1(content) ==
    LET bytes_read == IF Len(content) < ChunkSize THEN Len(content)
                      ELSE ChunkSize
        chunk == SubSeq(content, 1, bytes_read)
    IN IF bytes_read < ChunkSize THEN chunk
       ELSE chunk \o FileSha1(SubSeq(content, bytes_read + 1, Len(content)))

\* lines 326-341: what the loop body feeds the hasher for the entries
RECURSIVE FeedEntries(_, _)
FeedEntries(entries, directory_path) ==
    IF entries = <<>> THEN <<>>
    ELSE LET f == entries[1]
         IN ToStr(StripPrefix(directory_path \o f.path, directory_path))
            \o (IF f.is_file THEN FileSha1(f.content) ELSE <<>>)
            \o FeedEntries(Tail(entries), directory_path)

\* lines 320-343
DirectoryRecursiveSha1(tree, directory_path, order) ==
    FeedEntries(Walk(tree, <<>>, order), directory_path)

\* lines 351-362: sha1 of a directory entry, by its file type
Sha1DirEntry(is_dir, tree, content, path, order) ==
    IF is_dir THEN DirectoryRecursiveSha1(tree, path, order)
    ELSE FileSha1(content)

\* the relative paths in the order the loop of lines 321-342 takes them
Visited(tree, directory_path, order) ==
    LET w == Walk(tree, <<>>, order)
    IN [i \in 1..Len(w) |->
            StripPrefix(directory_path \o w[i].path, directory_path)]

HashNames == {<<"a">>, <<"a", "b">>}

HashContents == {<<>>, <<"b">>}

HashFile(path, c) == [path |-> path, is_file |-> TRUE, content |-> c]

HashDir(path) == [path |-> path, is_file |-> FALSE, content |-> <<>>]

\* what a directory may hold under the name n: nothing, a file, or a
\* directory that is empty or holds one file named a
NodeOptions(n) ==
    {{}}
    \cup {{HashFile(<<n>>, c)} : c \in HashContents}
    \cup {{HashDir(<<n>>)}}
    \cup {{HashDir(<<n>>), HashFile(<<n, <<"a">>>>, c)} : c \in HashContents}

Trees ==
    {o1 \cup o2 : o1 \in NodeOptions(<<"a">>), o2 \in NodeOptions(<<"a", "b">>)}

\* where the directories hashed are located
Roots == {<<<<"a">>>>, <<<<"b">>, <<"a">>>>}

\* two directory trees somewhere in the filesystem, each listed by the
\* filesystem in some order, and a regular file
InitHash ==
    /\ trees \in Trees \X Trees
    /\ roots \in Roots \X Roots
    /\ readdir \in Perms(HashNames) \X Perms(HashNames)
    /\ files \in {<<c>> : c \in HashContents}
    /\ streams = <<>>
    /\ visits = <<>>
    /\ race = <<>>
    /\ disk = [n \in Names |-> NoFile]
    /\ cacheFile = <<>>
    /\ catalogFile = <<>>
    /\ catalogText = ""
    /\ cacheText = ""
    /\ typesFile = EmptyTypes
    /\ NoRunYet
    /\ NoBibtex

\* sha1 is called on the two directories and on the file
HashTrees ==
    /\ trees # <<>>
    /\ streams = <<>>
    /\ streams' =
        <<Sha1DirEntry(TRUE, trees[1], <<>>, roots[1], readdir[1]),
          Sha1DirEntry(TRUE, trees[2], <<>>, roots[2], readdir[2]),
          Sha1DirEntry(FALSE, {}, files[1], roots[1], readdir[1])>>
    /\ visits' = <<Visited(trees[1], roots[1], readdir[1]),
                   Visited(trees[2], roots[2], readdir[2])>>
    /\ UNCHANGED <<disk, clock, cacheFile, catalogFile, pc, disable_cache,
                   remove_orphans, ops, runs, trees, roots, files, readdir,
                   race>>
    /\ UNCHANGED runVars
    /\ UNCHANGED histVars
    /\ UNCHANGED typeVars
    /\ UNCHANGED textVars
    /\ UNCHANGED bibVars
    /\ UNCHANGED crashVars

NextHash == HashTrees

SpecHash == InitHash /\ [][NextHash]_vars

\* when a descendant can vanish after WalkDir has read its name: a file
\* before line 339 asks whether it is a file or before line 298 opens it, a
\* directory before WalkDir lists it
RacePoints(e) ==
    IF e.is_file THEN {"before_is_file", "before_open"}
    ELSE {"before_read_dir"}

\* does the loop of lines 321-342 panic?  Path::is_file (line 339) answers
\* false for a path that is gone, and the content is skipped; File::open
\* (line 298) and the unwrap of the entries of a directory that cannot be
\* listed (line 326) panic
RaceAborts(at) == at # "before_is_file"

\* the entries the loop body has processed when the walk w loses the entry
\* v: v itself counts as no file, and nothing after v is reached when the
\* loop panics
RacingWalk(w, v, at) ==
    LET i == CHOOSE i \in 1..Len(w) : w[i] = v
        last == IF RaceAborts(at) THEN i ELSE Len(w)
    IN [j \in 1..last |-> IF j = i THEN [v EXCEPT !.is_file = FALSE] ELSE w[j]]

\* sha1 is called on the first directory while another process deletes one
\* of its descendants
HashRacing ==
    /\ trees # <<>>
    /\ streams = <<>>
    /\ \E v \in trees[1] : \E at \in RacePoints(v) :
        LET w == RacingWalk(Walk(trees[1], <<>>, readdir[1]), v, at)
        IN /\ streams' =
                <<FeedEntries(w, roots[1]),
                  Sha1DirEntry(TRUE, trees[2], <<>>, roots[2], readdir[2]),
                  Sha1DirEntry(FALSE, {}, files[1], roots[1], readdir[1])>>
           /\ visits' = <<[j \in 1..Len(w) |-> w[j].path],
                          Visited(trees[2], roots[2], readdir[2])>>
           /\ race' = <<[path |-> v.path, at |-> at,
                         aborted |-> RaceAborts(at)]>>
    /\ UNCHANGED <<disk, clock, cacheFile, catalogFile, pc, disable_cache,
                   remove_orphans, ops, runs, trees, roots, files, readdir>>
    /\ UNCHANGED runVars
    /\ UNCHANGED histVars
    /\ UNCHANGED typeVars
    /\ UNCHANGED textVars
    /\ UNCHANGED bibVars
    /\ UNCHANGED crashVars

NextRace == HashRacing

SpecRace == InitHash /\ [][NextRace]_vars

\* ----------------------------------------- a library that holds a resource
\* the library after the file "a" was cataloged: the child "d1", its
\* catalog entry and its cache entry
InitCataloged ==
    /\ disk = [n \in Names |->
                IF n = "d1" THEN [content |-> "c1", mtime |-> 0] ELSE NoFile]
    /\ catalogFile = <<NewResource("a", "None", "d1")>>
    /\ cacheFile = <<[key |-> "d1", last_verified |-> 0, checksum |-> "d1"]>>
    /\ catalogText = "json"
    /\ cacheText = "json"
    /\ typesFile = EmptyTypes
    /\ NoRunYet
    /\ NoHashing
    /\ NoBibtex

SpecCataloged == InitCataloged /\ [][Next]_vars

\* --------------------------------------------- runs that are not killed
\* the resources directory: empty, holding the first resource, holding a
\* file that is not cataloged
AskDisks ==
    {[n \in Names |-> NoFile],
     [n \in Names |->
        IF n = "d1" THEN [content |-> "c1", mtime |-> 0] ELSE NoFile],
     [n \in Names |->
        IF n = "a" THEN [content |-> "c2", mtime |-> 0] ELSE NoFile]}

\* a library some of whose entries have lost their files
InitAsk ==
    /\ disk \in AskDisks
    /\ catalogFile \in
         {<<NewResource("a", "None", "d1")>>,
          <<NewResource("a", "None", "d1"), NewResource("b", "None", "d2")>>}
    /\ cacheFile = <<>>
    /\ catalogText = "json"
    /\ cacheText = "json"
    /\ typesFile = EmptyTypes
    /\ NoRunYet
    /\ NoHashing
    /\ NoBibtex

NextAsk ==
    \/ StartRun
    \/ ScanChild
    \/ WriteCache
    \/ UpdateEntry
    \/ BeginOrphans
    \/ ResolveOrphan
    \/ AskAgain
    \/ Finish

\* the process is scheduled until it exits, and the operator goes on
\* typing until a line is accepted for the orphan prompted for
SpecAsk ==
    /\ InitAsk
    /\ [][NextAsk]_vars
    /\ WF_vars(ScanChild)
    /\ WF_vars(WriteCache)
    /\ WF_vars(UpdateEntry)
    /\ WF_vars(BeginOrphans)
    /\ WF_vars(ResolveOrphan)
    /\ WF_vars(Finish)

\* ------------------------------- catalogs with repeated original digests
\* entries the operator may have copied or written into catalog.json
DupResources ==
    {NewResource("a", "None", "d1"), NewResource("b", "None", "d1"),
     NewResource("a", "None", "d2"),
     [NewResource("b", "None", "d1") EXCEPT
        !.checksum = "d2", !.historical_checksums = <<"d1", "d2">>]}

\* the directories of AskDisks and one holding a new file whose digest is
\* d1; catalogs of up to three such entries, in any order
InitDup ==
    /\ disk \in AskDisks
                \cup {[n \in Names |->
                        IF n = "b" THEN [content |-> "c1", mtime |-> 0]
                        ELSE NoFile]}
    /\ catalogFile \in UNION {[1..n -> DupResources] : n \in 0..3}
    /\ cacheFile = <<>>
    /\ catalogText = "json"
    /\ cacheText = "json"
    /\ typesFile = EmptyTypes
    /\ NoRunYet
    /\ NoHashing
    /\ NoBibtex

SpecDup == InitDup /\ [][NextAsk]_vars

\* ------------------------------------------------ bibtex_serialize_names
\* the longest list of names serialized
MaxNames == 2

\* the characters of a part of a name
NameParts == {<<>>, <<"x">>, <<"y">>}

\* Option<String>
None == <<>>

Some(v) == <<v>>

\* resource.rs 276-282
NameNew == [first |-> None, middle |-> None, last |-> None]

\* str::split(" ") of line 315
RECURSIVE Split(_)
Split(s) ==
    IF \A i \in 1..Len(s) : s[i] # " " THEN <<s>>
    ELSE LET i == CHOOSE i \in 1..Len(s) :
                    s[i] = " " /\ \A j \in 1..(i - 1) : s[j] # " "
         IN <<SubSeq(s, 1, i - 1)>> \o Split(SubSeq(s, i + 1, Len(s)))

\* resource.rs 313-331: does try_from return Err?
TryFromFails(s) == Len(Split(s)) > 3

\* resource.rs 313-331: the Name of Ok(name)
TryFrom(s) ==
    LET subnames == Split(s)
    IN IF Len(subnames) = 3
       THEN [first |-> Some(subnames[1]), middle |-> Some(subnames[2]),
             last |-> Some(subnames[3])]
       ELSE IF Len(subnames) = 2
            THEN [NameNew EXCEPT !.first = Some(subnames[1]),
                                 !.last = Some(subnames[2])]
            ELSE IF Len(subnames) = 1
                 THEN [NameNew EXCEPT !.last = Some(subnames[1])]
                 ELSE NameNew

\* a rendering that keeps the last name only
StringFromLastOnly(name) == IF name.last = None THEN <<>> ELSE name.last[1]

\* resource.rs 335-348: impl From<Name> for String
StringFrom(name) ==
    IF name.last # None
    THEN IF name.first # None
         THEN IF name.middle # None
              THEN name.first[1] \o <<" ">> \o name.middle[1] \o <<" ">>
                   \o name.last[1]
              ELSE name.first[1] \o <<" ">> \o name.last[1]
         ELSE name.last[1]
    ELSE <<>>

\* [String]::join
RECURSIVE Join(_, _)
Join(strs, sep) ==
    IF Len(strs) = 0 THEN <<>>
    ELSE IF Len(strs) = 1 THEN strs[1]
         ELSE strs[1] \o sep \o Join(Tail(strs), sep)

\* bibtex.rs 25-33
bibtex_serialize_field(field, value) ==
    IF value # None
    THEN LET indent == <<" ", " ", " ", " ">>
         IN indent \o field \o <<"=", "{">> \o value[1] \o <<"}", ",", "\n">>
    ELSE <<>>

\* bibtex.rs 41-60
bibtex_serialize_names(field, names) ==
    IF names # None
    THEN LET x == names[1]
         IN IF Len(x) > 0
            THEN bibtex_serialize_field(
                    field,
                    Some(Join([i \in 1..Len(x) |-> StringFrom(x[i])],
                              <<" ", "a", "n", "d", " ">>)))
            ELSE <<>>
    ELSE <<>>

\* the strings of up to k parts separated by single spaces
RECURSIVE NameStringsOf(_)
NameStringsOf(k) ==
    IF k = 1 THEN NameParts
    ELSE NameStringsOf(k - 1)
         \cup {s \o <<" ">> \o q : s \in NameStringsOf(k - 1), q \in NameParts}

\* the names catalog.json can hold: serde builds each Name with try_from
\* (resource.rs 268), and a string try_from rejects fails the load
BibNames == {TryFrom(s) : s \in {t \in NameStringsOf(4) : ~TryFromFails(t)}}

\* the lists of names of the given lengths
BibLists(lens) == UNION {[1..n -> BibNames] : n \in lens}

\* bibtex.rs 95-96: the fields serialized with bibtex_serialize_names
BibFields == {<<"a", "u", "t", "h", "o", "r">>, <<"e", "d", "i", "t", "o", "r">>}

\* author / editor of a Resource read from catalog.json
InitBib ==
    /\ bib_field \in BibFields
    /\ bib_names \in {None} \cup {Some(x) : x \in BibLists(0..MaxNames)}
    /\ bib_out = <<>>
    /\ disk = [n \in Names |-> NoFile]
    /\ cacheFile = <<>>
    /\ catalogFile = <<>>
    /\ catalogText = ""
    /\ cacheText = ""
    /\ typesFile = EmptyTypes
    /\ NoRunYet
    /\ NoHashing

\* bibtex.rs 95-96: the call
SerializeNames ==
    /\ bib_out = <<>>
    /\ bib_field # <<>>
    /\ bib_out' = <<bibtex_serialize_names(bib_field, bib_names)>>
    /\ UNCHANGED <<bib_field, bib_names>>
    /\ UNCHANGED <<disk, clock, cacheFile, catalogFile, pc, disable_cache,
                   remove_orphans, ops, runs>>
    /\ UNCHANGED runVars
    /\ UNCHANGED histVars
    /\ UNCHANGED hashVars
    /\ UNCHANGED crashVars
    /\ UNCHANGED typeVars
    /\ UNCHANGED textVars

NextBib == SerializeNames

SpecBib == InitBib /\ [][NextBib]_vars

\* ------------------------------------------------------------- properties
\* a run has just completed and nothing happened since
Completed == pc = "done"

\* C1 (idempotence), for the cache enabled and a policy that asks nothing:
\* a run that directly follows a completed run with the same arguments
\* leaves catalog file and cache file as they were and renames and
\* deletes nothing
C1_Idempotent ==
    (Completed /\ again /\ ~disable_cache /\ remove_orphans # "ask")
        => /\ catalogFile = cat0
           /\ cacheFile = cache0
           /\ renames = {}
           /\ deletes = {}

IsPrefix(s, t) == Len(s) <= Len(t) /\ SubSeq(t, 1, Len(s)) = s

\* C2 (history append-only): every entry of the catalog before the run was
\* removed as an orphan or is, after the run, an entry with the same
\* original digest whose history extends the old history
C2_HistoryAppendOnly ==
    Completed =>
        \A i \in 1..Len(cat0) :
            \/ Original(cat0[i]) \in removed
            \/ \E j \in 1..Len(catalogFile) :
                /\ Original(catalogFile[j]) = Original(cat0[i])
                /\ IsPrefix(cat0[i].historical_checksums,
                            catalogFile[j].historical_checksums)

\* C3 (rename invariant): after a completed run an entry's original digest
\* names a child of the directory iff the entry was not left in the orphan set
C3_RenameInvariant ==
    Completed =>
        \A i \in 1..Len(catalogFile) :
            (disk[Original(catalogFile[i])] # NoFile)
                <=> (Original(catalogFile[i]) \notin orphaned)

\* C4 (orphan marking is sound): when the orphan loop starts, no entry still
\* in the orphan set has a child of the directory named by its original digest
C4_OrphansHaveNoFile ==
    (pc = "orphans" /\ pending = orphaned) =>
        \A i \in 1..Len(catalog_resources) :
            Original(catalog_resources[i]) \in orphaned
                => disk[Original(catalog_resources[i])] = NoFile

\* C5 (dedup): two children with identical content at the start of a run
\* leave exactly one child with that content and exactly one entry for it
C5_Dedup ==
    Completed =>
        \A n1, n2 \in Children(disk0) :
            (n1 # n2 /\ disk0[n1].content = disk0[n2].content) =>
                /\ Cardinality({n \in Children(disk) :
                        disk[n].content = disk0[n1].content}) = 1
                /\ Cardinality({i \in 1..Len(catalogFile) :
                        catalogFile[i].checksum = Sha1(disk0[n1].content)}) = 1

\* C9: after a completed run every child's name is one of the historical
\* digests of a catalog entry
C9_ChildrenCataloged ==
    Completed =>
        \A n \in Children(disk) :
            \E i \in 1..Len(catalogFile) :
                n \in Range(catalogFile[i].historical_checksums)

HistoryOk(r) ==
    /\ r.historical_checksums # <<>>
    /\ r.historical_checksums[Len(r.historical_checksums)] = r.checksum

\* C10: every catalog entry, persisted or in memory, has a non-empty
\* history whose last element is its current checksum
C10_HistoryEndsInChecksum ==
    /\ \A i \in 1..Len(catalogFile) : HistoryOk(catalogFile[i])
    /\ \A i \in 1..Len(catalog) : HistoryOk(catalog[i])
    /\ \A i \in 1..Len(catalog_resources) : HistoryOk(catalog_resources[i])

\* Catalog::update processes the next snapshot entry
EntryStep == pc = "update" /\ pc' = "update" /\ idx' = idx + 1

CurChecksum == resources[idx + 1][1]

CurName == resources[idx + 1][2]

\* the file name is the original digest of an entry of the lookup map
Matched == CatIdx(catalog_resources, CurName) # 0

\* C6 (match-by-name): a snapshot entry whose file name is the original
\* digest of an entry updates that entry and nothing else: a different digest
\* is appended to the history and becomes the checksum, an equal digest
\* leaves the entry unchanged; the original digest stays, no entry is
\* created, and the entry leaves the orphan set
C6_MatchByName ==
    [][(EntryStep /\ Matched) =>
        LET i == CatIdx(catalog_resources, CurName)
            r == catalog_resources[i]
            r2 == catalog_resources'[i]
        IN /\ Len(catalog_resources') = Len(catalog_resources)
           /\ \A j \in 1..Len(catalog_resources) :
                j # i => catalog_resources'[j] = catalog_resources[j]
           /\ Original(r2) = Original(r)
           /\ r2.title = r.title
           /\ r2.document = r.document
           /\ r.checksum # CurChecksum =>
                /\ r2.historical_checksums =
                        Append(r.historical_checksums, CurChecksum)
                /\ r2.checksum = CurChecksum
           /\ r.checksum = CurChecksum => r2 = r
           /\ CurName \notin orphaned'
    ]_vars

\* a matched entry has just received a digest its persisted entry did not have
C6_Witness ==
    /\ pc = "update"
    /\ idx > 0
    /\ \E i \in 1..Len(catalog_resources), j \in 1..Len(cat0) :
        /\ Original(catalog_resources[i]) = resources[idx][2]
        /\ Original(cat0[j]) = resources[idx][2]
        /\ cat0[j].checksum # resources[idx][1]
        /\ catalog_resources[i].checksum = resources[idx][1]
        /\ Len(catalog_resources[i].historical_checksums) =
                Len(cat0[j].historical_checksums) + 1
        /\ resources[idx][2] \notin orphaned

NewEntryCreated ==
    /\ Cardinality({i \in 1..Len(catalog_resources') :
            Original(catalog_resources'[i]) = CurChecksum}) = 1
    /\ LET r == catalog_resources'[CatIdx(catalog_resources', CurChecksum)]
       IN /\ r.checksum = CurChecksum
          /\ r.historical_checksums = <<CurChecksum>>

C10_Witness ==
    \E i \in 1..Len(catalogFile) :
        /\ Len(catalogFile[i].historical_checksums) >= 2
        /\ catalogFile[i].checksum # Original(catalogFile[i])

\* ------------------------------------------------- properties C11 .. C20
\* the run stops on a failing filesystem call: while children are still to
\* be hashed or deleted, or when the next snapshot entry is to be renamed
FsAbort ==
    /\ \/ pc = "scan" /\ todo # {}
       \/ pc = "update" /\ idx < Len(resources) /\ ~Matched
    /\ pc' = "idle"

\* C11: a run that aborts on a filesystem error during hashing, renaming or
\* deleting leaves the catalog file and the cache file as they were before
\* the run
C11_AbortLeavesFiles ==
    [][FsAbort => (catalogFile' = cat0 /\ cacheFile' = cache0)]_vars

\* the scan processes the next child
ScanStep == pc = "scan" /\ pc' = "scan" /\ todo' # todo

ScannedChild == CHOOSE f \in todo : f \notin todo'

\* the scan went on with the digest d for the child f: it entered the
\* snapshot under d, or was deleted as a duplicate of the entry d
ScanUsed(f, d) ==
    \/ resources' = Append(resources, <<d, f>>)
    \/ d \in SnapshotDigests /\ disk'[f] = NoFile /\ resources' = resources

KeyOf(f) ==
    IF f \in {Original(cat0[i]) : i \in 1..Len(cat0)}
    THEN f ELSE Sha1(disk0[f].content)

\* C13 (cache disabled), the scan: with disable_cache every child is hashed
\* whatever the cache holds, and an entry {now, digest} is stored for it
C13_DisabledScan ==
    [][(ScanStep /\ disable_cache) =>
        LET f == ScannedChild
        IN /\ hashes' = hashes \cup {f}
           /\ \E j \in 1..Len(cache') :
                /\ cache'[j].last_verified = now
                /\ cache'[j].checksum = Sha1(disk[f].content)
    ]_vars

\* C13 (cache disabled): after a run with disable_cache every child was
\* hashed and the persisted cache holds, for each of them, an entry with
\* last_verified = now and the digest computed
C13_CacheDisabled ==
    (Completed /\ disable_cache) =>
        /\ hashes = Children(disk0)
        /\ \A f \in Children(disk0) :
            \E j \in 1..Len(cacheFile) :
                /\ cacheFile[j].key = KeyOf(f)
                /\ cacheFile[j].last_verified = now
                /\ cacheFile[j].checksum = Sha1(disk0[f].content)

\* C14 (cache key naming): a digest computed for a child whose name is not
\* an original digest of the catalog is stored under the digest and the
\* entry of the file name, if any, is left alone; for a child named by an
\* original digest it is stored under the file name
C14_CacheKeyNaming ==
    [][(ScanStep /\ ScannedChild \in hashes') =>
        LET f == ScannedChild
            d == Sha1(disk[f].content)
            k == IF f \in CatalogedNames THEN f ELSE d
            e == [key |-> k, last_verified |-> now, checksum |-> d]
        IN /\ CacheIdx(cache', k) # 0
           /\ cache'[CacheIdx(cache', k)] = e
           /\ \A n \in Names \ {k} :
                /\ (CacheIdx(cache', n) = 0) <=> (CacheIdx(cache, n) = 0)
                /\ CacheIdx(cache, n) # 0 =>
                     cache'[CacheIdx(cache', n)] = cache[CacheIdx(cache, n)]
    ]_vars

\* a new file, not named by its digest, was hashed and filed under its digest
C14_Witness ==
    /\ pc = "scan"
    /\ \E f \in hashes \cap PlainNames :
        /\ f \notin todo
        /\ CacheIdx(cache, f) = 0
        /\ CacheIdx(cache, Sha1(disk0[f].content)) # 0
    /\ \E g \in hashes \cap CatalogedNames :
        /\ disk0[g].content # "none"
        /\ Sha1(disk0[g].content) # g
        /\ CacheIdx(cache, g) # 0
        /\ cache[CacheIdx(cache, g)].checksum = Sha1(disk0[g].content)

\* C15 (cache pruning): after a completed run every key of the persisted
\* cache names a child of the directory
C15_CachePruned ==
    Completed =>
        \A i \in 1..Len(cacheFile) : cacheFile[i].key \in Children(disk)

\* C16 (remove policy): after a run with remove_orphans = "true" no entry
\* left in the orphan set is in the catalog, and every orphan was removed
C16_RemovePolicy ==
    (Completed /\ remove_orphans = "true") =>
        /\ \A i \in 1..Len(catalogFile) :
                Original(catalogFile[i]) \notin orphaned
        /\ removed = orphaned
        /\ reprompts = 0

\* a run under "true" has removed an orphan
C16_Witness ==
    /\ Completed
    /\ remove_orphans = "true"
    /\ orphaned # {}
    /\ Len(catalogFile) < Len(cat0)

\* C17 (keep policy): after a run with remove_orphans = "false" every
\* original digest of the catalog before the run is still in the catalog
C17_KeepPolicy ==
    (Completed /\ remove_orphans = "false") =>
        /\ \A i \in 1..Len(cat0) :
            \E j \in 1..Len(catalogFile) :
                Original(catalogFile[j]) = Original(cat0[i])
        /\ removed = {}

\* a run under "false" has kept an entry that has no backing file
C17_Witness ==
    /\ Completed
    /\ remove_orphans = "false"
    /\ \E i \in 1..Len(catalogFile) :
        /\ Original(catalogFile[i]) \in orphaned
        /\ disk[Original(catalogFile[i])] = NoFile

\* C18 (ask policy): under "ask" every step of the orphan loop concerns one
\* orphan; an invalid line decides nothing, and the orphan is removed from
\* the catalog iff the line accepted for it is "y\n", kept on "n\n"
C18_AskPolicy ==
    [][(pc = "orphans" /\ pc' = "orphans" /\ remove_orphans = "ask") =>
        IF pending' = pending
        THEN /\ catalog_resources' = catalog_resources
             /\ removed' = removed
             /\ response' = ""
        ELSE /\ Cardinality(pending \ pending') = 1
             /\ pending' \subseteq pending
             /\ LET o == CHOOSE o \in pending : o \notin pending'
                IN /\ response' \in {"y\n", "n\n"}
                   /\ (o \in removed') <=> (response' = "y\n")
                   /\ response' = "y\n" =>
                        /\ CatIdx(catalog_resources', o) = 0
                        /\ Len(catalog_resources') = Len(catalog_resources) - 1
                   /\ response' = "n\n" =>
                        /\ catalog_resources' = catalog_resources
                        /\ removed' = removed
    ]_vars

\* under "ask" the orphan prompted for was removed on the answer "y\n"
C18_Witness ==
    /\ pc = "orphans"
    /\ remove_orphans = "ask"
    /\ pending = {}
    /\ response = "y\n"
    /\ orphaned # {}
    /\ removed = orphaned
    /\ Len(catalog_resources) < Len(cat0)

\* None before any present value; a present integer by its value
OptIntKey(x) == IF x = <<>> THEN 0 ELSE 1 + x[1]

OptStrKey(x) == IF x = "None" THEN 0 ELSE StrRank(x)

\* (title, date, edition, version, volume) as a tuple of numbers
SortKey(r) ==
    <<StrRank(r.title)>>
    \o (IF r.date = <<>> THEN <<0, 0, 0, 0, 0, 0, 0>>
        ELSE <<1>> \o [i \in 1..6 |-> OptIntKey(r.date[1][DateMembers[i]])])
    \o <<OptStrKey(r.edition), OptStrKey(r.version), OptStrKey(r.volume)>>

\* lexicographic order on tuples of the same length
RECURSIVE LexLeq(_, _)
LexLeq(s, t) ==
    IF s = <<>> THEN TRUE
    ELSE IF s[1] # t[1] THEN s[1] < t[1]
    ELSE LexLeq(Tail(s), Tail(t))

Sorted(rs) ==
    \A i \in 1..(Len(rs) - 1) : LexLeq(SortKey(rs[i]), SortKey(rs[i + 1]))

\* C19 (sorted catalog): after every run the resource list, in memory and
\* persisted, is non-decreasing in (title, date, edition, version, volume),
\* a missing value before any present one
C19_SortedCatalog ==
    Completed => (Sorted(catalog) /\ Sorted(catalogFile))

\* a run has swapped two entries that tie on title, date, edition and
\* version and differ in the volume
C19_Witness ==
    /\ Completed
    /\ Len(catalogFile) = 2
    /\ Len(cat0) = 2
    /\ catalogFile[1] = cat0[2]
    /\ catalogFile[2] = cat0[1]
    /\ catalogFile[1].title = catalogFile[2].title
    /\ catalogFile[1].date = catalogFile[2].date
    /\ catalogFile[1].date # <<>>
    /\ catalogFile[1].edition = catalogFile[2].edition
    /\ catalogFile[1].version = catalogFile[2].version
    /\ catalogFile[1].volume = "None"
    /\ catalogFile[2].volume # "None"

RelPaths(tree) == {e.path : e \in tree}

\* the trees differ in the relative path of a descendant or in the content
\* of a file
TreesDiffer(t1, t2) ==
    \/ RelPaths(t1) # RelPaths(t2)
    \/ \E e1 \in t1, e2 \in t2 :
        /\ e1.path = e2.path
        /\ e1.is_file
        /\ e2.is_file
        /\ e1.content # e2.content

\* C20 (directory digest sensitivity): two trees that differ in a relative
\* path or in the content of a file are fed to the hasher as different byte
\* streams, and two equal trees as the same stream wherever they are located
C20_DirectoryDigestSensitive ==
    streams # <<>> =>
        /\ TreesDiffer(trees[1], trees[2]) => streams[1] # streams[2]
        /\ trees[1] = trees[2] => streams[1] = streams[2]

\* ------------------------------------------------- properties C21 .. C30
\* C21 (file against directory): the bytes fed to the hasher for a regular
\* file differ from the bytes fed for a directory, whatever the content of
\* the file and whatever the tree, an empty file and an empty directory
\* included
C21_FileAndDirectoryDiffer ==
    streams # <<>> => streams[3] # streams[1]

\* component-wise order of relative paths (Ord on Path), file names compared
\* as bytes
RECURSIVE PathLess(_, _)
PathLess(p, q) ==
    IF q = <<>> THEN FALSE
    ELSE IF p = <<>> THEN TRUE
    ELSE IF p[1] # q[1] THEN BytesLess(p[1], q[1])
    ELSE PathLess(Tail(p), Tail(q))

\* C22 (traversal order): the descendants of each tree are visited in
\* lexicographic order of their relative paths (component by component),
\* each exactly once, whatever the order in which the filesystem lists
\* them; the same tree hashed twice, listed in two orders, gives the same
\* bytes
C22_TraversalOrder ==
    streams # <<>> =>
        /\ \A k \in 1..2 :
            /\ \A i, j \in 1..Len(visits[k]) :
                i < j => PathLess(visits[k][i], visits[k][j])
            /\ {visits[k][i] : i \in 1..Len(visits[k])} = RelPaths(trees[k])
        /\ (trees[1] = trees[2] /\ roots[1] = roots[2])
                => streams[1] = streams[2]

\* one tree with two top-level entries was hashed twice, the filesystem
\* listing it in two different orders
C22_Witness ==
    /\ streams # <<>>
    /\ trees[1] = trees[2]
    /\ roots[1] = roots[2]
    /\ readdir[1] # readdir[2]
    /\ Cardinality(Kids(trees[1], <<>>)) = 2
    /\ Len(visits[1]) >= 3
    /\ streams[1] = streams[2]

\* C23 (hashing races fail loudly): when a descendant of the directory
\* vanishes between its enumeration and the read of its content, the hashing
\* stops with an error and produces no digest
C23_RaceAborts ==
    race # <<>> => race[1].aborted

\* a process starts: the catalog file and then the cache file are loaded
LoadStep == Idle /\ runs' = runs + 1

C25_EmptyFilesLoad ==
    [][LoadStep =>
        /\ (catalogText = "" /\ cacheText # "garbage") =>
            /\ pc' = "scan"
            /\ catalog' = <<>>
            /\ document_types' = <<>>
            /\ content_types' = <<>>
            /\ catalogText' = "json"
        /\ (cacheText = "" /\ catalogText # "garbage") =>
            /\ pc' = "scan"
            /\ cache' = <<>>
            /\ cache_orphans' = {}
            /\ cacheText' = "json"
    ]_vars

\* a run started from an empty catalog file and an empty cache file has
\* cataloged a child
C25_Witness ==
    /\ Completed
    /\ text0 = <<"", "">>
    /\ cat0 = <<>>
    /\ cache0 = <<>>
    /\ catalogFile # <<>>
    /\ cacheFile # <<>>

\* equality of two strings up to the case of their letters
SameIgnoringCase(x, y) == ToLowercase(x) = ToLowercase(y)

\* the document types whose extension is, case-insensitively, the extension
\* of the file name
DocTypesOf(file_name) ==
    IF Extension(file_name) = "None" THEN {}
    ELSE {i \in 1..Len(document_types) :
            SameIgnoringCase(Extension(file_name),
                             document_types[i].extension)}

\* C26 (new-entry defaults): the entry created for a new resource has the
\* file stem as title and a document type's name as document type when the
\* file's extension equals, case-insensitively, that document type's
\* extension; otherwise the title is the whole file name and the document
\* type is empty; the other metadata are empty
C26_NewEntryDefaults ==
    [][(EntryStep /\ ~Matched) =>
        LET r == catalog_resources'[CatIdx(catalog_resources', CurChecksum)]
            types == DocTypesOf(CurName)
        IN /\ types # {} =>
                /\ r.title = FileStem(CurName)
                /\ \E i \in types : r.document = document_types[i].name
           /\ types = {} =>
                /\ r.title = CurName
                /\ r.document = "None"
           /\ r.date = <<>>
           /\ r.edition = "None"
           /\ r.version = "None"
           /\ r.volume = "None"
    ]_vars

\* a process is running or has completed its run
Started == pc \in {"scan", "update", "orphans", "done"}

\* the digests of the snapshot
ResourceDigests(rs) == {rs[i][1] : i \in 1..Len(rs)}

\* C27 (top-level scan only): a run hashes, renames, deletes and takes into
\* the snapshot only immediate children of the resources directory; every
\* new catalog entry and every new cache key belongs to such a child, and a
\* directory resource that is not deleted as a duplicate is kept whole,
\* under its name or under its digest
C27_TopLevelOnly ==
    Started =>
        /\ hashes \subseteq Children(disk0)
        /\ renames \subseteq Children(disk0)
        /\ deletes \subseteq Children(disk0)
        /\ \A i \in 1..Len(resources) :
            /\ resources[i][2] \in Children(disk0)
            /\ \/ resources[i][1] = Sha1(disk0[resources[i][2]].content)
               \/ \E j \in 1..Len(cache0) :
                    /\ cache0[j].key = resources[i][2]
                    /\ cache0[j].checksum = resources[i][1]
        /\ created \subseteq ResourceDigests(resources)
        /\ \A i \in 1..Len(catalog_resources) :
            \/ Original(catalog_resources[i]) \in ResourceDigests(resources)
            \/ \E j \in 1..Len(cat0) :
                Original(cat0[j]) = Original(catalog_resources[i])
        /\ \A i \in 1..Len(cache) :
            \/ cache[i].key \in Children(disk0)
            \/ cache[i].key \in ResourceDigests(resources)
            \/ cache[i].key \in {Sha1(disk0[n].content) : n \in deletes}
            \/ \E j \in 1..Len(cache0) : cache0[j].key = cache[i].key
        /\ \A n \in Children(disk0) \ deletes :
            IsDir(disk0[n].content) =>
                \/ disk[n] = disk0[n]
                \/ n \in renames /\ disk[Sha1(disk0[n].content)] = disk0[n]

\* a directory holding a file whose name is not the name of a child has
\* been cataloged and renamed to its digest
C27_Witness ==
    /\ Completed
    /\ \E n \in renames :
        /\ IsDir(disk0[n].content)
        /\ NestedNames(disk0[n].content) \cap Children(disk0) = {}
        /\ disk[Sha1(disk0[n].content)] = disk0[n]
        /\ Sha1(disk0[n].content) \in created

\* C29 (content collision in the scan): a child whose digest is already a
\* key of the snapshot is deleted, with all it holds, and the snapshot keeps
\* the earlier path; any other child enters the snapshot and stays on disk;
\* the digests of the snapshot are pairwise distinct and, when the scan
\* ends, its paths are exactly the children still on disk
C29_ScanCollision ==
    [][ScanStep =>
        LET f == ScannedChild
            d == IF f \in hashes' THEN Sha1(disk[f].content)
                 ELSE cache[CacheIdx(cache, f)].checksum
        IN /\ d \in ResourceDigests(resources) =>
                /\ disk'[f] = NoFile
                /\ \A n \in Names \ {f} : disk'[n] = disk[n]
                /\ resources' = resources
           /\ d \notin ResourceDigests(resources) =>
                /\ disk' = disk
                /\ resources' = Append(resources, <<d, f>>)
           /\ \A i, j \in 1..Len(resources') :
                i # j => resources'[i][1] # resources'[j][1]
           /\ todo' = {} =>
                {resources'[i][2] : i \in 1..Len(resources')} = Children(disk')
    ]_vars

\* the scan has ended after deleting a directory that duplicated an earlier
\* child
C29_Witness ==
    /\ pc = "scan"
    /\ todo = {}
    /\ Len(resources) >= 1
    /\ \E f \in deletes :
        /\ IsDir(disk0[f].content)
        /\ disk[f] = NoFile
        /\ Sha1(disk0[f].content) \in ResourceDigests(resources)

\* C30 (a fresh resource is not hashed again): in a run with the cache
\* enabled that directly follows the run that cataloged a resource as new,
\* the cache file held an entry under the digest name of the resource,
\* verified no earlier than the modification of the file, and the hasher
\* is not invoked on the resource
C30_FreshNotRehashed ==
    (Started /\ ~disable_cache) =>
        \A d \in fresh :
            /\ disk0[d] # NoFile
            /\ \E j \in 1..Len(cache0) :
                /\ cache0[j].key = d
                /\ cache0[j].last_verified >= disk0[d].mtime
            /\ d \notin hashes

\* the parts of a name that are present, in the order first, middle, last
PresentParts(name) ==
    LET Present(part) == part # <<>>
        kept == SelectSeq(<<name.first, name.middle, name.last>>, Present)
    IN [i \in 1..Len(kept) |-> kept[i][1]]

\* the strings strs with the string sep between each two of them
RECURSIVE Joined(_, _)
Joined(strs, sep) ==
    IF strs = <<>> THEN <<>>
    ELSE IF Len(strs) = 1 THEN Head(strs)
         ELSE Head(strs) \o sep \o Joined(Tail(strs), sep)

\* C28 (bibtex_serialize_names): the result is the empty string when names
\* is None or an empty list; otherwise it is one line: four spaces, the
\* field name, '={', the names in list order joined by ' and ', each name
\* being its present parts (first, middle, last) separated by one space,
\* then '},' and a newline
C28_SerializeNames ==
    bib_out # <<>> =>
        IF bib_names = <<>> \/ bib_names = <<<<>>>>
        THEN bib_out[1] = <<>>
        ELSE LET x == bib_names[1]
                 rendered == [i \in 1..Len(x) |->
                                Joined(PresentParts(x[i]), <<" ">>)]
                 line == <<" ", " ", " ", " ">> \o bib_field \o <<"=", "{">>
                         \o Joined(rendered, <<" ", "a", "n", "d", " ">>)
                         \o <<"}", ",">>
             IN /\ bib_out[1] = line \o <<"\n">>
                /\ \A i \in 1..Len(line) : line[i] # "\n"

\* two names were serialized, the first with a middle part and the second
\* with a last part only
C28_Witness ==
    /\ bib_out # <<>>
    /\ bib_names # <<>>
    /\ Len(bib_names[1]) = 2
    /\ bib_names[1][1].middle = <<<<"x">>>>
    /\ bib_names[1][1].first = <<<<"y">>>>
    /\ bib_names[1][2].first = <<>>
    /\ bib_names[1][2].last = <<<<"y">>>>
    /\ Len(bib_out[1]) > 0

\* ------------------------------------------------- properties C31 .. C40
\* C31 (crash recovery): when a process was killed after it renamed new
\* resources to their digests and before it wrote the catalog file, the
\* next run, completed under the same policy, catalogs each such child as
\* new under its name, leaves the name as it is, and ends with the original
\* digests the killed run would have ended with
C31_CrashRecovery ==
    (Completed /\ aborted # <<>> /\ remove_orphans # "ask"
        /\ remove_orphans = aborted[1].policy) =>
        /\ \A d \in aborted[1].names :
            /\ d \in created
            /\ d \notin renames
            /\ disk[d] # NoFile
            /\ \E j \in 1..Len(catalogFile) :
                /\ Original(catalogFile[j]) = d
                /\ catalogFile[j].historical_checksums = <<d>>
        /\ Originals(catalogFile) = aborted[1].expect

\* C32 (no re-link after a change of name and content): under a policy that
\* asks nothing, when an entry's original digest names no child and a child
\* whose name is no original digest carries content other than the entry's
\* current content (no other child carrying the content the entry was first
\* cataloged with), the child is cataloged as a new entry with default
\* metadata and the history [its digest], and the old entry is left in the
\* orphan set: removed under "true", kept as it was under "false"
C32_NoRelink ==
    (Completed /\ remove_orphans # "ask") =>
        \A i \in 1..Len(cat0), k \in 1..Len(resources) :
            LET o == Original(cat0[i])
                n == resources[k][2]
                d == resources[k][1]
            IN (/\ disk0[o] = NoFile
                /\ n \notin Originals(cat0)
                /\ d # cat0[i].checksum
                /\ \A l \in 1..Len(resources) :
                    l # k => resources[l][1] # o) =>
                    /\ \E j \in 1..Len(catalogFile) :
                        catalogFile[j] =
                            NewResource(Title(n, document_types),
                                        DocType(n, document_types), d)
                    /\ o \in orphaned
                    /\ remove_orphans = "true" =>
                        o \notin Originals(catalogFile)
                    /\ remove_orphans = "false" =>
                        \E j \in 1..Len(catalogFile) : catalogFile[j] = cat0[i]

\* C33 (termination under "ask"): under "ask" an orphan is decided only by
\* the line "y\n" or "n\n"; any other read leaves the orphan, the lookup map
\* and the catalog file as they are; the orphan loop is left only when no
\* orphan is undecided; and when the operator goes on typing until a line
\* is accepted, the run ends
C33_AskTerminates ==
    /\ [][(pc = "orphans" /\ remove_orphans = "ask") =>
            /\ pending' # pending => response' \in {"y\n", "n\n"}
            /\ (pending # {} /\ pending' = pending) =>
                /\ catalog_resources' = catalog_resources
                /\ catalogFile' = catalogFile
                /\ removed' = removed
                /\ pc' = "orphans"
            /\ pc' # "orphans" => pending = {}
            /\ catalogFile' # catalogFile => pending = {}
         ]_vars
    /\ (pc = "orphans" /\ remove_orphans = "ask") ~> (pc = "done")

\* a run under "ask" has ended after a valid answer for each of two orphans
C33_Witness ==
    /\ Completed
    /\ remove_orphans = "ask"
    /\ Cardinality(orphaned) = 2
    /\ response \in {"y\n", "n\n"}

\* C34 (a run destroys no content): after a completed run every content
\* that a child carried before the run is carried by some child
C34_ContentKept ==
    Completed =>
        \A n \in Children(disk0) :
            \E m \in Children(disk) : disk[m].content = disk0[n].content

\* C35 (the catalog agrees with the disk): after a completed run that reused
\* no cached digest other than the digest of the child's content, every
\* entry whose original digest names a child has for current checksum the
\* digest of the content of that child
C35_CatalogAgreesWithDisk ==
    (Completed /\ stale = {}) =>
        \A j \in 1..Len(catalogFile) :
            disk[Original(catalogFile[j])] # NoFile =>
                catalogFile[j].checksum =
                    Sha1(disk[Original(catalogFile[j])].content)

\* the fields of an entry other than checksum and historical_checksums
Metadata(r) == <<r.title, r.date, r.edition, r.version, r.volume, r.document>>

\* C36 (a duplicate costs no cataloged entry): when a child that is not
\* cataloged carries the content of a cataloged child, the completed run
\* leaves the cataloged entry in the catalog with its metadata and its
\* history, neither in the orphan set nor removed
C36_DuplicateKeepsEntry ==
    Completed =>
        \A i \in 1..Len(cat0) :
            \A n \in Children(disk0) \ Originals(cat0) :
                LET o == Original(cat0[i])
                IN (disk0[o] # NoFile /\ disk0[n].content = disk0[o].content)
                    => /\ o \notin orphaned
                       /\ o \notin removed
                       /\ \E j \in 1..Len(catalogFile) :
                            /\ Original(catalogFile[j]) = o
                            /\ Metadata(catalogFile[j]) = Metadata(cat0[i])
                            /\ IsPrefix(cat0[i].historical_checksums,
                                        catalogFile[j].historical_checksums)

\* C37 (a reused digest is never stale): whenever the scan goes on for a
\* child without hashing it, the digest it goes on with is the digest of
\* the content the child has
C37_ReuseNeverStale ==
    [][(ScanStep /\ hashes' = hashes) =>
        ScanUsed(ScannedChild, Sha1(disk[ScannedChild].content))]_vars

\* C38 (every child is cached after a run): after a completed run the
\* persisted cache has an entry under the name of every child
C38_ChildrenCached ==
    Completed =>
        \A n \in Children(disk) :
            \E i \in 1..Len(cacheFile) : cacheFile[i].key = n

\* C39 (reconciliation leaves metadata alone): an entry of the catalog
\* before the run that is in the catalog after the run, under its original
\* digest, has the metadata it had; and the write of the catalog keeps the
\* key/value pairs of document_types and content_types
C39_MetadataKept ==
    /\ [](Completed =>
            \A i \in 1..Len(cat0), j \in 1..Len(catalogFile) :
                Original(catalogFile[j]) = Original(cat0[i]) =>
                    Metadata(catalogFile[j]) = Metadata(cat0[i]))
    /\ [][(pc = "orphans" /\ pc' = "done") =>
            /\ Range(typesFile'.document_types)
                = Range(typesFile.document_types)
            /\ Range(typesFile'.content_types)
                = Range(typesFile.content_types)]_vars

\* no two entries of the catalog m have the same original digest
UniqueOriginals(m) ==
    \A i, j \in 1..Len(m) : i # j => Original(m[i]) # Original(m[j])

\* C40 (original digests are unique): after a completed run no two entries
\* of the catalog, in memory and in the catalog file, have the same
\* original digest
C40_OriginalsUnique ==
    Completed => UniqueOriginals(catalog) /\ UniqueOriginals(catalogFile)

\* the run started from a catalog with a repeated original digest,
\* cataloged a new resource whose digest was an original digest of the
\* catalog, and left entries in the catalog
C40_Witness ==
    /\ Completed
    /\ ~UniqueOriginals(cat0)
    /\ created \cap Originals(cat0) # {}
    /\ Len(catalogFile) >= 2

====
